---------------------------- MODULE Spec2Model ----------------------------
(***************************************************************************)
(* ClassMate Idea Hub: the express backend (backend/server.js), the store  *)
(* it writes to through the mysql2 pool (backend/db.js) and the validation *)
(* of the browser forms (js/app.js).                                       *)
(*                                                                         *)
(* Strings are run-length encoded: a string is a sequence of runs          *)
(* <<c, n>>, the character c repeated n >= 1 times, so that a 1001         *)
(* character message costs one run.  Two values that are not strings share *)
(* the encoding: the JavaScript value undefined (a field the body does not *)
(* have) and a JSON number.                                                *)
(***************************************************************************)
EXTENDS Integers, Sequences, FiniteSets, TLC

VARIABLES
    reqs,              \* the requests the server has accepted, in arrival order
    contact_messages,  \* table contact_messages, in insertion order
    projects,          \* table projects, in insertion order
    nextId,            \* the store's auto-increment counter of projects.id
    stored0,           \* the rows projects held when the server started
    form,              \* the form input under validation (validation runs)
    verdict,           \* what client and server validation made of it
    ui                 \* the page: how far its submit is, and its message box

vars ==
    <<reqs, contact_messages, projects, nextId, stored0, form, verdict, ui>>

-----------------------------------------------------------------------------
(* Bounds of the model *)

\* requests the server accepts in one behaviour
MaxReq == 2

\* rows the table projects may hold when the server starts
MaxStored == 1

\* fields of a valid form that a validation run changes at once
MaxChanged == 2

-----------------------------------------------------------------------------
(* Strings *)

Letters == {"a", "b", "c", "d", "e", "f", "g", "h", "i", "j", "k", "l", "m",
            "n", "o", "p", "q", "r", "s", "t", "u", "v", "w", "x", "y", "z",
            "A", "B", "C", "D", "E", "F", "G", "H", "I", "J", "K", "L", "M",
            "N", "O", "P", "Q", "R", "S", "T", "U", "V", "W", "X", "Y", "Z"}

Digits == {"0", "1", "2", "3", "4", "5", "6", "7", "8", "9"}

Space == " "

\* the characters the inputs of the model are written in
Alphabet == Letters \cup Digits \cup {Space, "+", "-", "@", ".", "_"}

\* the string whose characters are the elements of cs
Str(cs) == [i \in 1..Len(cs) |-> <<cs[i], 1>>]

\* the character c repeated n times
Rep(c, n) == IF n = 0 THEN <<>> ELSE << <<c, n>> >>

\* a body without the field: req.body.x is undefined
Undefined == << <<"undefined", 0>> >>

\* the JSON number n
Num(n) == << <<"number", n>> >>

IsNum(v) == Len(v) = 1 /\ v[1][1] = "number"

RECURSIVE StrLen(_)
StrLen(s) == IF s = <<>> THEN 0 ELSE s[1][2] + StrLen(Tail(s))

RECURSIVE Expand(_)
Expand(s) ==
    IF s = <<>> THEN <<>>
    ELSE [i \in 1..s[1][2] |-> s[1][1]] \o Expand(Tail(s))

RECURSIVE LTrim(_)
LTrim(s) == IF s # <<>> /\ s[1][1] = Space THEN LTrim(Tail(s)) ELSE s

RECURSIVE RTrim(_)
RTrim(s) ==
    IF s # <<>> /\ s[Len(s)][1] = Space
    THEN RTrim(SubSeq(s, 1, Len(s) - 1)) ELSE s

\* String.prototype.trim, and validator's trim() with no characters given
Trim(s) == RTrim(LTrim(s))

DigitVal(c) == CHOOSE d \in 0..9 : ToString(d) = c

RECURSIVE DecVal(_)
\* the number a sequence of digit characters writes
DecVal(cs) ==
    IF cs = <<>> THEN 0
    ELSE 10 * DecVal(SubSeq(cs, 1, Len(cs) - 1)) + DigitVal(cs[Len(cs)])

RECURSIVE DecStr(_)
\* the decimal digits of n >= 0
DecStr(n) ==
    IF n < 10 THEN <<ToString(n)>>
    ELSE Append(DecStr(n \div 10), ToString(n % 10))

\* validator's toString(value): what every validator and sanitizer reads
ToStr(v) ==
    IF v = Undefined THEN <<>>
    ELSE IF IsNum(v)
         THEN Str((IF v[1][2] < 0 THEN <<"-">> ELSE <<>>)
                  \o DecStr(IF v[1][2] < 0 THEN 0 - v[1][2] ELSE v[1][2]))
         ELSE v

AllIn(cs, S) == \A i \in 1..Len(cs) : cs[i] \in S


RunsIn(s, S) == \A i \in 1..Len(s) : s[i][1] \in S

RECURSIVE Split(_, _)
\* String.prototype.split(sep) on a sequence of characters
Split(cs, sep) ==
    IF \A i \in 1..Len(cs) : cs[i] # sep THEN <<cs>>
    ELSE LET k == CHOOSE i \in 1..Len(cs) :
                      cs[i] = sep /\ \A j \in 1..(i - 1) : cs[j] # sep
         IN  <<SubSeq(cs, 1, k - 1)>> \o Split(SubSeq(cs, k + 1, Len(cs)), sep)

RECURSIVE Join(_, _)
\* Array.prototype.join(sep)
Join(parts, sep) ==
    IF Len(parts) = 0 THEN <<>>
    ELSE IF Len(parts) = 1 THEN parts[1]
    ELSE parts[1] \o <<sep>> \o Join(Tail(parts), sep)

-----------------------------------------------------------------------------
(* The validators of express-validator (validator.js) the chains call *)

\* isLength({min, max})
IsLength(s, min, max) == StrLen(s) >= min /\ StrLen(s) <= max

\* notEmpty(): the negation of isEmpty()
NotEmpty(s) == StrLen(s) # 0

\* isInt({min, max}): /^[-+]?[0-9]+$/ and the range
IsInt(s, min, max) ==
    LET cs     == Expand(s)
        signed == cs # <<>> /\ cs[1] \in {"-", "+"}
        ds     == IF signed THEN Tail(cs) ELSE cs
        n      == IF signed /\ cs[1] = "-" THEN 0 - DecVal(ds) ELSE DecVal(ds)
    IN  /\ ds # <<>>
        /\ AllIn(ds, Digits)
        /\ n >= min
        /\ n <= max

\* isFQDN(domain) with its default options
IsFQDN(cs) ==
    LET parts == Split(cs, ".")
        tld   == parts[Len(parts)]
    IN  /\ Len(parts) >= 2
        /\ \/ Len(tld) >= 2 /\ AllIn(tld, Letters)
           \/ /\ Len(tld) >= 4
              /\ tld[1] \in {"x", "X"}
              /\ tld[2] \in {"n", "N"}
              /\ AllIn(SubSeq(tld, 3, Len(tld)), Letters \cup Digits \cup {"-"})
        /\ \A i \in 1..Len(parts) :
              /\ Len(parts[i]) >= 1
              /\ Len(parts[i]) <= 63
              /\ AllIn(parts[i], Letters \cup Digits \cup {"-"})
              /\ parts[i][1] # "-"
              /\ parts[i][Len(parts[i])] # "-"

\* isEmail() with its default options
IsEmail(s) ==
    LET cs     == Expand(s)
        parts  == Split(cs, "@")
        domain == parts[Len(parts)]
        user   == Join(SubSeq(parts, 1, Len(parts) - 1), "@")
        uparts == Split(user, ".")
    IN  /\ Len(cs) <= 254
        /\ Len(user) <= 64
        /\ IsFQDN(domain)
        /\ \A i \in 1..Len(uparts) :
              /\ Len(uparts[i]) >= 1
              /\ AllIn(uparts[i], Letters \cup Digits \cup {"+", "-", "_"})

-----------------------------------------------------------------------------
(* The regular expressions of server.js *)

\* 9665\d{8}
SaudiIntl(cs) ==
    /\ Len(cs) = 12
    /\ SubSeq(cs, 1, 4) = <<"9", "6", "6", "5">>
    /\ AllIn(SubSeq(cs, 5, 12), Digits)

\* 05\d{8}
SaudiLocal(cs) ==
    /\ Len(cs) = 10
    /\ SubSeq(cs, 1, 2) = <<"0", "5">>
    /\ AllIn(SubSeq(cs, 3, 10), Digits)

\* /^(\+?9665\d{8}|05\d{8})/, the pattern without its closing anchor: a
\* string matches when one of its prefixes does
ServerMobileUnanchored(s) ==
    LET cs == IF StrLen(s) <= 14 THEN Expand(s) ELSE <<>>
    IN  \E n \in 1..Len(cs) :
            LET p == SubSeq(cs, 1, n)
            IN  \/ p[1] = "+" /\ SaudiIntl(Tail(p))
                \/ SaudiIntl(p)
                \/ SaudiLocal(p)

\* /^(\+?9665\d{8}|05\d{8})$/
ServerMobile(s) ==
    LET cs == IF StrLen(s) <= 13 THEN Expand(s) ELSE <<>>
    IN  \/ cs # <<>> /\ cs[1] = "+" /\ SaudiIntl(Tail(cs))
        \/ SaudiIntl(cs)
        \/ SaudiLocal(cs)

\* /^\d{7}$/
SevenDigits(s) == StrLen(s) = 7 /\ RunsIn(s, Digits)

\* /^[A-Za-z]{2,}\d{2,}$/
CoursePattern(s) ==
    \E k \in 1..(Len(s) - 1) :
        /\ RunsIn(SubSeq(s, 1, k), Letters)
        /\ StrLen(SubSeq(s, 1, k)) >= 2
        /\ RunsIn(SubSeq(s, k + 1, Len(s)), Digits)
        /\ StrLen(SubSeq(s, k + 1, Len(s))) >= 2


-----------------------------------------------------------------------------
(* POST /api/contact: the validation chains *)

ContactFields ==
    <<"firstName", "lastName", "gender", "mobile", "dob", "email",
      "language", "message">>

\* the fields whose chain starts with the sanitizer trim()
ContactTrimmed == {"firstName", "lastName", "mobile", "dob", "email", "message"}

\* the value a chain's validator reads: the field, made a string, trimmed
\* where the chain trims
ContactValue(body, f) ==
    IF f \in ContactTrimmed THEN Trim(ToStr(body[f])) ELSE ToStr(body[f])

\* the validator of the chain check(f)
ContactRule(body, f) ==
    LET v == ContactValue(body, f)
    IN  CASE f = "firstName" -> IsLength(v, 2, 30)
          [] f = "lastName"  -> IsLength(v, 2, 30)
          [] f = "gender"    -> NotEmpty(v)
          [] f = "mobile"    -> ServerMobile(v)
          [] f = "dob"       -> NotEmpty(v)
          [] f = "email"     -> IsEmail(v)
          [] f = "language"  -> NotEmpty(v)
          [] f = "message"   -> IsLength(v, 10, 1000)

\* withMessage(...) of the chain check(f)
ContactMessage(f) ==
    CASE f = "firstName" -> "first name must be 2-30 characters"
      [] f = "lastName"  -> "last name must be 2-30 characters"
      [] f = "gender"    -> "please select a gender"
      [] f = "mobile"    -> "use saudi format: +9665xxxxxxxx or 05xxxxxxxx"
      [] f = "dob"       -> "dob is required"
      [] f = "email"     -> "enter a valid email"
      [] f = "language"  -> "choose at least one language"
      [] f = "message"   -> "message must be between 10 and 1000 characters"

\* req.body once the chains have run: a sanitizer writes its result back
ContactSanitized(body) ==
    [f \in DOMAIN body |->
        IF f \in ContactTrimmed THEN Trim(ToStr(body[f])) ELSE body[f]]

-----------------------------------------------------------------------------
(* POST /api/project: the validation chains *)

ProjectFields ==
    <<"teamName", "teamSize", "repName", "repId", "repEmail", "courseCode",
      "category", "projectType", "projectName", "projectDesc">>

ProjectTrimmed ==
    {"teamName", "repName", "repId", "repEmail", "courseCode", "projectName",
     "projectDesc"}

ProjectValue(body, f) ==
    IF f \in ProjectTrimmed THEN Trim(ToStr(body[f])) ELSE ToStr(body[f])

ProjectRule(body, f) ==
    LET v == ProjectValue(body, f)
    IN  CASE f = "teamName"    -> IsLength(v, 3, 50)
          [] f = "teamSize"    -> IsInt(v, 1, 10)
          [] f = "repName"     -> IsLength(v, 3, 50)
          [] f = "repId"       -> SevenDigits(v)
          [] f = "repEmail"    -> IsEmail(v)
          [] f = "courseCode"  -> CoursePattern(v)
          [] f = "category"    -> NotEmpty(v)
          [] f = "projectType" -> NotEmpty(v)
          [] f = "projectName" -> IsLength(v, 3, 60)
          [] f = "projectDesc" -> IsLength(v, 10, 400)

ProjectMessage(f) ==
    CASE f = "teamName"    -> "team name must be 3-50 characters"
      [] f = "teamSize"    -> "team size must be between 1 and 10"
      [] f = "repName"     -> "representative name must be 3-50 characters"
      [] f = "repId"       -> "representative id must be exactly 7 digits"
      [] f = "repEmail"    -> "representative email must be valid"
      [] f = "courseCode"  -> "course code must look like ccsw321"
      [] f = "category"    -> "major / track is required"
      [] f = "projectType" -> "project type is required"
      [] f = "projectName" -> "project title must be 3-60 characters"
      [] f = "projectDesc" -> "description must be 10-400 characters"

ProjectSanitized(body) ==
    [f \in DOMAIN body |->
        IF f \in ProjectTrimmed THEN Trim(ToStr(body[f])) ELSE body[f]]

-----------------------------------------------------------------------------
(* validationResult(req).array() *)

RECURSIVE ErrorsFrom(_, _, _)
\* the errors of the chains fields[i..], in the order the chains are declared
ErrorsFrom(kind, body, fields) ==
    IF fields = <<>> THEN <<>>
    ELSE LET f  == Head(fields)
             ok == IF kind = "contact" THEN ContactRule(body, f)
                   ELSE ProjectRule(body, f)
             m  == IF kind = "contact" THEN ContactMessage(f)
                   ELSE ProjectMessage(f)
         IN  (IF ok THEN <<>> ELSE <<[param |-> f, msg |-> m]>>)
             \o ErrorsFrom(kind, body, Tail(fields))

\* validationResult(req).array() had the chains stopped at the first failure
ValidationErrorsFirstOnly(kind, body) ==
    LET all == ErrorsFrom(kind, body,
                   IF kind = "contact" THEN ContactFields ELSE ProjectFields)
    IN  IF all = <<>> THEN <<>> ELSE <<all[1]>>

ValidationErrors(kind, body) ==
    ErrorsFrom(kind, body,
               IF kind = "contact" THEN ContactFields ELSE ProjectFields)


-----------------------------------------------------------------------------
(* The responses of the handlers: res.status(code).json(object) *)

NoResponse ==
    [code |-> 0, keys |-> {}, status |-> "", msg |-> "", errors |-> <<>>,
     data |-> <<>>]

ValidationFailure(errors) ==
    [code |-> 400, keys |-> {"status", "errors"}, status |-> "error",
     msg |-> "", errors |-> errors, data |-> <<>>]

Saved(msg) ==
    [code |-> 200, keys |-> {"status", "msg"}, status |-> "ok",
     msg |-> msg, errors |-> <<>>, data |-> <<>>]

\* a catch that answered like the validation branch
DatabaseErrorAs400(msg) ==
    [code |-> 400, keys |-> {"status", "errors"}, status |-> "error",
     msg |-> "", errors |-> <<>>, data |-> <<>>]

DatabaseError(msg) ==
    [code |-> 500, keys |-> {"status", "msg"}, status |-> "error",
     msg |-> msg, errors |-> <<>>, data |-> <<>>]

\* a listing that answers an empty result set as an error
ListingNoneFound(rows) ==
    IF rows = <<>>
    THEN [code |-> 404, keys |-> {"status", "msg"}, status |-> "error",
          msg |-> "no projects found", errors |-> <<>>, data |-> <<>>]
    ELSE [code |-> 200, keys |-> {"status", "data"}, status |-> "ok",
          msg |-> "", errors |-> <<>>, data |-> rows]

Listing(rows) ==
    [code |-> 200, keys |-> {"status", "data"}, status |-> "ok",
     msg |-> "", errors |-> <<>>, data |-> rows]

SavedMessage(kind) ==
    IF kind = "contact" THEN "your message was received successfully"
    ELSE "team project idea saved successfully"

FailureMessage(kind) ==
    CASE kind = "contact" -> "database error while saving your message."
      [] kind = "project" -> "database error while saving project."
      [] kind = "list"    -> "database error while loading projects."

-----------------------------------------------------------------------------
(* The statements the handlers execute *)

\* x || ""
OrEmpty(v) == IF v = Undefined \/ v = <<>> \/ v = Num(0) THEN <<>> ELSE v

\* the bind values of "insert into contact_messages", by column
ContactParams(b) ==
    [first_name |-> b.firstName, last_name |-> b.lastName,
     gender |-> b.gender, mobile |-> b.mobile, dob |-> b.dob,
     email |-> b.email, language |-> b.language, message |-> b.message]

\* the bind values without the || "" of the optional fields
ProjectParamsNoDefault(b) ==
    [team_name |-> b.teamName, team_size |-> b.teamSize,
     rep_name |-> b.repName, rep_id |-> b.repId, rep_email |-> b.repEmail,
     other_members |-> b.otherMembers, course_code |-> b.courseCode,
     category |-> b.category, project_type |-> b.projectType,
     project_name |-> b.projectName, description |-> b.projectDesc,
     tools |-> b.tools]

\* the bind values of "insert into projects", by column
ProjectParams(b) ==
    [team_name |-> b.teamName, team_size |-> b.teamSize,
     rep_name |-> b.repName, rep_id |-> b.repId, rep_email |-> b.repEmail,
     other_members |-> OrEmpty(b.otherMembers), course_code |-> b.courseCode,
     category |-> b.category, project_type |-> b.projectType,
     project_name |-> b.projectName, description |-> b.projectDesc,
     tools |-> OrEmpty(b.tools)]

\* a row of projects: the bind values and the identifier the store assigns
WithId(params, id) ==
    [c \in DOMAIN params \cup {"id"} |-> IF c = "id" THEN id ELSE params[c]]

\* the columns "select ... from projects" names
ProjectColumns(b) ==
    IF b = "server.js"
    THEN {"id", "team_name", "team_size", "other_members", "course_code",
          "category", "project_type", "project_name", "rep_name",
          "description", "tools"}
    ELSE {"id", "team_name", "team_size", "course_code", "category",
          "project_type", "project_name", "rep_name", "description"}

Project(row, b) == [c \in ProjectColumns(b) |-> row[c]]

RECURSIVE OrderByIdAsc(_)
\* order by id asc: the oldest row first
OrderByIdAsc(rows) ==
    IF rows = {} THEN <<>>
    ELSE LET least == CHOOSE r \in rows : \A q \in rows : q.id >= r.id
         IN  <<least>> \o OrderByIdAsc(rows \ {least})

RECURSIVE OrderByIdDesc(_)
\* order by id desc
OrderByIdDesc(rows) ==
    IF rows = {} THEN <<>>
    ELSE LET top == CHOOSE r \in rows : \A q \in rows : q.id <= r.id
         IN  <<top>> \o OrderByIdDesc(rows \ {top})

Range(seq) == {seq[i] : i \in 1..Len(seq)}

\* the rows the select of GET /api/projects returns on table t
SelectProjects(t, b) ==
    LET sorted == OrderByIdDesc(Range(t))
    IN  [i \in 1..Len(sorted) |-> Project(sorted[i], b)]


-----------------------------------------------------------------------------
(* The request bodies the model submits *)

EightDigits == Rep("1", 8)

ValidContact ==
    [firstName |-> Str(<<"S", "a", "r", "a">>),
     lastName  |-> Str(<<"A", "l", "i">>),
     gender    |-> Str(<<"f", "e", "m", "a", "l", "e">>),
     mobile    |-> Str(<<"0", "5">>) \o EightDigits,
     dob       |-> Str(<<"2", "0", "0", "0", "-", "0", "1", "-", "1", "5">>),
     email     |-> Str(<<"s", "@", "u", "j", ".", "s", "a">>),
     language  |-> Str(<<"e", "n">>),
     message   |-> Rep("m", 10)]

FutureDob == Str(<<"2", "9", "9", "9", "-", "0", "1", "-", "0", "1">>)

NoPlusMobile == Str(<<"9", "6", "6", "5">>) \o EightDigits

ContactBodies ==
    { ValidContact,
      [ValidContact EXCEPT !.firstName = Rep(Space, 2) \o @ \o Rep(Space, 1)],
      [ValidContact EXCEPT !.dob = FutureDob],
      [ValidContact EXCEPT !.firstName = Str(<<"a">>),
                           !.email = Str(<<"s", "@", "u", "j">>),
                           !.message = Rep("m", 9)] }

ValidProject ==
    [teamName     |-> Str(<<"C", "M", "3">>),
     teamSize     |-> Num(10),
     repName      |-> Str(<<"S", "a", "r", "a">>),
     repId        |-> Rep("2", 7),
     repEmail     |-> Str(<<"s", "@", "u", "j", ".", "s", "a">>),
     otherMembers |-> Undefined,
     courseCode   |-> Str(<<"c", "c", "s", "w", "3", "2", "1">>),
     category     |-> Str(<<"c", "s">>),
     projectType  |-> Str(<<"s", "o", "l", "o">>),
     projectName  |-> Str(<<"h", "u", "b">>),
     projectDesc  |-> Rep("d", 10),
     tools        |-> Undefined]

ProjectBodies ==
    { ValidProject,
      [ValidProject EXCEPT !.teamName = Rep(Space, 1) \o @,
                           !.otherMembers = Str(<<"A", "l", "i">>),
                           !.tools = Str(<<"j", "s">>),
                           !.teamSize = Str(<<"1">>)],
      [ValidProject EXCEPT !.category = Str(<<"z", "z">>)],
      [ValidProject EXCEPT !.teamSize = Str(<<"0">>),
                           !.repId = Rep("2", 6)] }

-----------------------------------------------------------------------------
(* The server and the store *)

Request(kind, body, pc, params, resp) ==
    [kind |-> kind, body |-> body, pc |-> pc, params |-> params,
     rows |-> <<>>, resp |-> resp]

\* the handlers of app.post: the chains run, then either the 400 is sent or
\* the handler issues its insert and awaits it
Post(kind, body) ==
    LET errors == ValidationErrors(kind, body)
        clean  == IF kind = "contact" THEN ContactSanitized(body)
                  ELSE ProjectSanitized(body)
        params == IF kind = "contact" THEN ContactParams(clean)
                  ELSE ProjectParams(clean)
    IN  IF errors # <<>>
        THEN Request(kind, body, "responded", <<>>, ValidationFailure(errors))
        ELSE Request(kind, body, "awaiting", params, NoResponse)

PostContact(body) ==
    /\ Len(reqs) < MaxReq
    /\ reqs' = Append(reqs, Post("contact", body))
    /\ UNCHANGED <<contact_messages, projects, nextId, stored0, form, verdict,
                   ui>>

PostProject(body) ==
    /\ Len(reqs) < MaxReq
    /\ reqs' = Append(reqs, Post("project", body))
    /\ UNCHANGED <<contact_messages, projects, nextId, stored0, form, verdict,
                   ui>>

\* the handler of app.get("/api/projects"): it issues its select and awaits it
GetProjects ==
    /\ Len(reqs) < MaxReq
    /\ reqs' = Append(reqs, Request("list", <<>>, "awaiting", <<>>, NoResponse))
    /\ UNCHANGED <<contact_messages, projects, nextId, stored0, form, verdict,
                   ui>>

\* an insert of a contact message that overwrites the row already stored
\* for the same email (insert ... on duplicate key update)
StoreInsertOrUpdate(i) ==
    /\ reqs[i].pc = "awaiting"
    /\ reqs[i].kind \in {"contact", "project"}
    /\ reqs' = [reqs EXCEPT ![i].pc = "resolved"]
    /\ IF reqs[i].kind = "contact"
       THEN /\ contact_messages' =
                  IF \E k \in 1..Len(contact_messages) :
                        contact_messages[k].email = reqs[i].params.email
                  THEN [k \in 1..Len(contact_messages) |->
                          IF contact_messages[k].email = reqs[i].params.email
                          THEN reqs[i].params
                          ELSE contact_messages[k]]
                  ELSE Append(contact_messages, reqs[i].params)
            /\ UNCHANGED <<projects, nextId>>
       ELSE /\ projects' = Append(projects, WithId(reqs[i].params, nextId))
            /\ nextId' = nextId + 1
            /\ UNCHANGED contact_messages
    /\ UNCHANGED <<stored0, form, verdict, ui>>

\* the store executes the insert of request i: pool.execute resolves
StoreInsert(i) ==
    /\ reqs[i].pc = "awaiting"
    /\ reqs[i].kind \in {"contact", "project"}
    /\ reqs' = [reqs EXCEPT ![i].pc = "resolved"]
    /\ IF reqs[i].kind = "contact"
       THEN /\ contact_messages' = Append(contact_messages, reqs[i].params)
            /\ UNCHANGED <<projects, nextId>>
       ELSE /\ projects' = Append(projects, WithId(reqs[i].params, nextId))
            /\ nextId' = nextId + 1
            /\ UNCHANGED contact_messages
    /\ UNCHANGED <<stored0, form, verdict, ui>>

\* the store executes the select of request i: pool.execute resolves
StoreSelect(i) ==
    /\ reqs[i].pc = "awaiting"
    /\ reqs[i].kind = "list"
    /\ reqs' = [reqs EXCEPT ![i].pc = "resolved",
                            ![i].rows = SelectProjects(projects, "server.js")]
    /\ UNCHANGED <<contact_messages, projects, nextId, stored0, form, verdict,
                   ui>>

\* a failing insert that left its row behind
StoreRejectPartial(i, burn) ==
    /\ reqs[i].pc = "awaiting"
    /\ reqs' = [reqs EXCEPT ![i].pc = "rejected"]
    /\ nextId' = IF reqs[i].kind = "project" THEN nextId + 1 ELSE nextId
    /\ projects' = IF reqs[i].kind = "project"
                   THEN Append(projects, WithId(reqs[i].params, nextId))
                   ELSE projects
    /\ contact_messages' = IF reqs[i].kind = "contact"
                           THEN Append(contact_messages, reqs[i].params)
                           ELSE contact_messages
    /\ UNCHANGED <<stored0, form, verdict, ui>>

\* the statement of request i fails: pool.execute rejects.  A failed insert
\* adds no row; it may still have used up an identifier.
StoreReject(i, burn) ==
    /\ reqs[i].pc = "awaiting"
    /\ reqs' = [reqs EXCEPT ![i].pc = "rejected"]
    /\ nextId' = IF burn /\ reqs[i].kind = "project" THEN nextId + 1 ELSE nextId
    /\ UNCHANGED <<contact_messages, projects, stored0, form, verdict, ui>>

\* a handler without its catch: a rejected statement is left unanswered
RespondNoCatch(i) ==
    /\ reqs[i].pc = "resolved"
    /\ reqs' = [reqs EXCEPT
                  ![i].pc = "responded",
                  ![i].resp = IF reqs[i].kind = "list"
                              THEN Listing(reqs[i].rows)
                              ELSE Saved(SavedMessage(reqs[i].kind))]
    /\ UNCHANGED <<contact_messages, projects, nextId, stored0, form, verdict,
                   ui>>

\* the handler of request i resumes after its await and answers
Respond(i) ==
    /\ reqs[i].pc \in {"resolved", "rejected"}
    /\ reqs' = [reqs EXCEPT
                  ![i].pc = "responded",
                  ![i].resp =
                      IF reqs[i].pc = "rejected"
                      THEN DatabaseError(FailureMessage(reqs[i].kind))
                      ELSE IF reqs[i].kind = "list"
                           THEN Listing(reqs[i].rows)
                           ELSE Saved(SavedMessage(reqs[i].kind))]
    /\ UNCHANGED <<contact_messages, projects, nextId, stored0, form, verdict,
                   ui>>

\* a row an earlier run of the server stored
StoredProject(id) == WithId(ProjectParams(ProjectSanitized(ValidProject)), id)

NoForm == [page |-> "none", f |-> <<>>]

NotRun == [done |-> FALSE, outcome |-> "", errors |-> <<>>]

NoVerdict == [client |-> NotRun, server |-> NotRun]

\* the page before a submit: clearFormErrors has emptied the message box
IdlePage == [phase |-> "idle", box |-> "", text |-> <<>>, reset |-> FALSE]

Init ==
    /\ reqs = <<>>
    /\ contact_messages = <<>>
    /\ \E n \in 0..MaxStored :
          /\ projects = [k \in 1..n |-> StoredProject(k)]
          /\ nextId = n + 1
          /\ stored0 = n
    /\ form = NoForm
    /\ verdict = NoVerdict
    /\ ui = IdlePage

Next ==
    \/ \E body \in ContactBodies : PostContact(body)
    \/ \E body \in ProjectBodies : PostProject(body)
    \/ GetProjects
    \/ \E i \in 1..Len(reqs) : StoreInsert(i)
    \/ \E i \in 1..Len(reqs) : StoreSelect(i)
    \/ \E i \in 1..Len(reqs), burn \in BOOLEAN : StoreReject(i, burn)
    \/ \E i \in 1..Len(reqs) : Respond(i)

Spec == Init /\ [][Next]_vars

\* the store settles the statement of request i: pool.execute resolves or
\* rejects
Settles(i) ==
    /\ i \in 1..Len(reqs)
    /\ \/ StoreInsert(i)
       \/ StoreSelect(i)
       \/ \E burn \in BOOLEAN : StoreReject(i, burn)

\* the handler of request i resumes
Resumes(i) == i \in 1..Len(reqs) /\ Respond(i)

\* The server with a store that settles every statement it is given, and
\* an event loop that resumes every handler whose await has settled.
\* Whether and when a request is answered depends on its body only through
\* the chains passing or failing: the fair server is given one body that
\* passes and one that fails.
LiveContactBodies ==
    {ValidContact, [ValidContact EXCEPT !.message = Rep("m", 9)]}

LiveProjectBodies == {ValidProject}

NextLive ==
    \/ \E body \in LiveContactBodies : PostContact(body)
    \/ \E body \in LiveProjectBodies : PostProject(body)
    \/ GetProjects
    \/ \E i \in 1..Len(reqs) : StoreInsert(i)
    \/ \E i \in 1..Len(reqs) : StoreSelect(i)
    \/ \E i \in 1..Len(reqs), burn \in BOOLEAN : StoreReject(i, burn)
    \/ \E i \in 1..Len(reqs) : Respond(i)

SpecLive ==
    /\ Init
    /\ [][NextLive]_vars
    /\ \A i \in 1..MaxReq : WF_vars(Settles(i)) /\ WF_vars(Resumes(i))


-----------------------------------------------------------------------------
(* js/app.js: the checks of the forms *)

\* the date new Date() returns when the form is submitted
Today == <<2026, 11, 2>>

LeapYear(y) == (y % 4 = 0 /\ y % 100 # 0) \/ y % 400 = 0

DaysInMonth(y, m) ==
    IF m = 2 THEN (IF LeapYear(y) THEN 29 ELSE 28)
    ELSE IF m \in {4, 6, 9, 11} THEN 30 ELSE 31

\* /^(\d{4})-(\d{2})-(\d{2})$/
YMDShape(cs) ==
    /\ Len(cs) = 10
    /\ cs[5] = "-" /\ cs[8] = "-"
    /\ AllIn(SubSeq(cs, 1, 4) \o SubSeq(cs, 6, 7) \o SubSeq(cs, 9, 10), Digits)

YearOf(cs) == DecVal(SubSeq(cs, 1, 4))

MonthOf(cs) == DecVal(SubSeq(cs, 6, 7))

DayOf(cs) == DecVal(SubSeq(cs, 9, 10))

\* isValidDateYMD(value); new Date(year, month - 1, day) reads a year below
\* 100 as 1900 + year and carries a day past the month's end into the next
IsValidDateYMD(s) ==
    LET cs == IF StrLen(s) = 10 THEN Expand(s) ELSE <<>>
    IN  /\ YMDShape(cs)
        /\ MonthOf(cs) >= 1 /\ MonthOf(cs) <= 12
        /\ DayOf(cs) >= 1 /\ DayOf(cs) <= 31
        /\ YearOf(cs) >= 100
        /\ DayOf(cs) <= DaysInMonth(YearOf(cs), MonthOf(cs))

\* a < b for dates <<year, month, day>>
Before(a, b) ==
    \/ a[1] < b[1]
    \/ a[1] = b[1] /\ a[2] < b[2]
    \/ a[1] = b[1] /\ a[2] = b[2] /\ a[3] < b[3]

\* the day a day of month past the month's end is carried to
CarriedOver(y, m, d) ==
    IF d <= DaysInMonth(y, m) THEN <<y, m, d>>
    ELSE IF m = 12 THEN <<y + 1, 1, d - DaysInMonth(y, m)>>
    ELSE <<y, m + 1, d - DaysInMonth(y, m)>>

\* new Date(dob.value) > new Date().  A value that is no YYYY-MM-DD date
\* gives an invalid date, which compares false; a day of month past the
\* month's end does so too, or is carried into the next month, by the engine
\* (lenient).  Holds for the values of the model: "", YYYY-MM-DD and letters.
SelectedAfterToday(s, lenient) ==
    LET cs == IF StrLen(s) = 10 THEN Expand(s) ELSE <<>>
        y  == YearOf(cs)
        m  == MonthOf(cs)
        d  == DayOf(cs)
    IN  /\ YMDShape(cs)
        /\ m >= 1 /\ m <= 12 /\ d >= 1 /\ d <= 31
        /\ d <= DaysInMonth(y, m) \/ lenient
        /\ Before(Today, CarriedOver(y, m, d))

\* /^[A-Za-z]{2,30}$/
NamePattern(s) == RunsIn(s, Letters) /\ StrLen(s) >= 2 /\ StrLen(s) <= 30

\* /^(?:\+9665\d{8}|05\d{8})$/
MobilePattern(s) ==
    LET cs == IF StrLen(s) <= 13 THEN Expand(s) ELSE <<>>
    IN  \/ cs # <<>> /\ cs[1] = "+" /\ SaudiIntl(Tail(cs))
        \/ SaudiLocal(cs)

\* /^[^\s@]+@[^\s@]+\.[^\s@]+$/
EmailPattern(s) ==
    LET cs    == Expand(s)
        parts == Split(cs, "@")
    IN  /\ Len(parts) = 2
        /\ AllIn(cs, Alphabet \ {Space})
        /\ Len(parts[1]) >= 1
        /\ \E k \in 2..(Len(parts[2]) - 1) : parts[2][k] = "."

\* parseInt(value, 10): NaN is Undefined here
ParseInt(s) ==
    LET cs     == Expand(LTrim(s))
        signed == cs # <<>> /\ cs[1] \in {"-", "+"}
        ds     == IF signed THEN Tail(cs) ELSE cs
        n      == IF \E k \in 1..Len(ds) : ds[k] \notin Digits
                  THEN (CHOOSE k \in 1..Len(ds) :
                           /\ ds[k] \notin Digits
                           /\ \A j \in 1..(k - 1) : ds[j] \in Digits) - 1
                  ELSE Len(ds)
        v      == DecVal(SubSeq(ds, 1, n))
    IN  IF n = 0 THEN Undefined
        ELSE Num(IF signed /\ cs[1] = "-" THEN 0 - v ELSE v)

If(failed, message) == IF failed THEN <<message>> ELSE <<>>

\* the errors array of the contact form's submit listener
ContactFormErrors(f, lenient) ==
    If(~NamePattern(Trim(f.firstName)),
       "First name must be 2-30 letters (A-Z) only.")
    \o If(~NamePattern(Trim(f.lastName)),
          "Last name must be 2-30 letters (A-Z) only.")
    \o If(f.gender = Undefined, "Please select a gender option.")
    \o If(~MobilePattern(Trim(f.mobile)),
          "Mobile must be a valid Saudi number (+9665XXXXXXXX or 05XXXXXXXX).")
    \o (IF f.dob = <<>> THEN <<"Date of birth is required.">>
        ELSE If(SelectedAfterToday(f.dob, lenient),
                "Date of birth cannot be in the future."))
    \o (IF Trim(f.email) = <<>> THEN <<"Email is required.">>
        ELSE If(~EmailPattern(Trim(f.email)),
                "Email must be in a valid format (name@example.com)."))
    \o If(f.language = <<>>, "Please choose a preferred language.")
    \o If(StrLen(Trim(f.message)) < 10 \/ StrLen(Trim(f.message)) > 1000,
          "Message must be between 10 and 1000 characters.")

\* the body the contact form sends
ContactPayload(f) ==
    [firstName |-> Trim(f.firstName), lastName |-> Trim(f.lastName),
     gender |-> IF f.gender = Undefined THEN <<>> ELSE f.gender,
     mobile |-> Trim(f.mobile), dob |-> Trim(f.dob), email |-> Trim(f.email),
     language |-> f.language, message |-> Trim(f.message)]

\* the errors array of the project form's submit listener
ProjectFormErrors(f) ==
    LET size == ParseInt(f.teamSize)
    IN  If(StrLen(Trim(f.teamName)) < 3,
           "Team name must be at least 3 characters.")
        \o If(size = Undefined \/ size[1][2] < 1 \/ size[1][2] > 10,
              "Team size must be between 1 and 10.")
        \o If(StrLen(Trim(f.repName)) < 3,
              "Representative name must be at least 3 characters.")
        \o If(~SevenDigits(Trim(f.repId)),
              "Representative ID must be exactly 7 digits.")
        \o If(~EmailPattern(Trim(f.repEmail)),
              "Representative email must be valid.")
        \o If(~CoursePattern(Trim(f.courseCode)),
              "Course code must follow a pattern like CCSW321.")
        \o If(StrLen(Trim(f.projectName)) < 3,
              "Project title must be at least 3 characters.")
        \o If(f.category = <<>>, "Please select a major / track.")
        \o If(f.projectType = Undefined, "Please select a project type.")
        \o If(StrLen(Trim(f.projectDesc)) < 10,
              "Project description must be at least 10 characters.")

\* the body the project form sends
ProjectPayload(f) ==
    [teamName |-> Trim(f.teamName), teamSize |-> ParseInt(f.teamSize),
     repName |-> Trim(f.repName), repId |-> Trim(f.repId),
     repEmail |-> Trim(f.repEmail), otherMembers |-> Trim(f.otherMembers),
     courseCode |-> Trim(f.courseCode), category |-> f.category,
     projectType |-> IF f.projectType = Undefined THEN <<>>
                     ELSE f.projectType,
     projectName |-> Trim(f.projectName), projectDesc |-> Trim(f.projectDesc),
     tools |-> Trim(f.tools)]

\* what a submit listener does with its errors array.  With no gender
\* checked the contact listener calls querySelector with the selector
\* legend:contains("Gender"), which is no selector: the call throws and the
\* listener ends there.
Outcome(page, f, errors) ==
    IF page = "contact" /\ f.gender = Undefined THEN "threw"
    ELSE IF errors # <<>> THEN "shown"
    ELSE "sent"

-----------------------------------------------------------------------------
(* Validation runs: one form, checked by the page and by the server *)

ValidContactForm == ValidContact

ValidProjectForm ==
    [ValidProject EXCEPT !.teamSize = Str(<<"1", "0">>),
                         !.otherMembers = <<>>, !.tools = <<>>]

Digit(n) == Rep("1", n)

\* the values a validation run puts in a field of the contact form
\* the mobile numbers of the boundary cases
Mobile05And9 ==
    Str(<<"0", "5", "0", "1", "2", "3", "4", "5", "6", "7", "8">>)

MobilePlus9665And8 ==
    Str(<<"+", "9", "6", "6", "5", "0", "1", "2", "3", "4", "5", "6", "7">>)

Mobile05And8 ==
    Str(<<"0", "5", "0", "1", "2", "3", "4", "5", "6", "7">>)

Mobile9665And9 ==
    Str(<<"9", "6", "6", "5", "0", "1", "2", "3", "4", "5", "6", "7", "8">>)

ContactChanges ==
    { <<"firstName", Str(<<"a">>)>>,
      <<"firstName", Rep("a", 30)>>,
      <<"firstName", Rep("a", 31)>>,
      <<"firstName", Str(<<"a", "1">>)>>,
      <<"firstName", Rep(Space, 2) \o Str(<<"a", "b">>) \o Rep(Space, 1)>>,
      <<"lastName", Str(<<"b", "_">>)>>,
      <<"gender", Undefined>>,
      <<"gender", Str(<<"x">>)>>,
      <<"mobile", Str(<<"+", "9", "6", "6", "5">>) \o Digit(8)>>,
      <<"mobile", Str(<<"9", "6", "6", "5">>) \o Digit(8)>>,
      <<"mobile", Str(<<"0", "5">>) \o Digit(7)>>,
      <<"mobile", Str(<<"0", "5">>) \o Digit(9)>>,
      <<"mobile", Mobile05And9>>,
      <<"mobile", MobilePlus9665And8>>,
      <<"mobile", Mobile05And8>>,
      <<"mobile", Mobile9665And9>>,
      <<"dob", <<>> >>,
      <<"dob", FutureDob>>,
      <<"dob", Str(<<"2", "0", "2", "3", "-", "0", "2", "-", "3", "0">>)>>,
      <<"dob", Str(<<"2", "9", "9", "9", "-", "0", "2", "-", "3", "0">>)>>,
      <<"dob", Str(<<"a", "b", "c">>)>>,
      <<"email", <<>> >>,
      <<"email", Str(<<"s", "@", "u", "j">>)>>,
      <<"email", Str(<<"s", "@", "u", ".", "j">>)>>,
      <<"language", <<>> >>,
      <<"language", Str(<<"z", "z">>)>>,
      <<"message", Rep("m", 9)>>,
      <<"message", Rep("m", 1000)>>,
      <<"message", Rep("m", 1001)>> }

\* the values a validation run puts in a field of the project form
ProjectChanges ==
    { <<"teamName", Rep("t", 2)>>,
      <<"teamName", Rep("t", 50)>>,
      <<"teamName", Rep("t", 51)>>,
      <<"teamSize", Str(<<"0">>)>>,
      <<"teamSize", Str(<<"1">>)>>,
      <<"teamSize", Str(<<"1", "1">>)>>,
      <<"teamSize", Str(<<"5", "x">>)>>,
      <<"teamSize", <<>> >>,
      <<"repName", Rep("r", 51)>>,
      <<"repId", Digit(6)>>,
      <<"repId", Digit(8)>>,
      <<"repEmail", Str(<<"s", "@", "u", ".", "j">>)>>,
      <<"repEmail", Str(<<"s", "u", "j">>)>>,
      <<"courseCode", Str(<<"c", "1", "2">>)>>,
      <<"courseCode", Str(<<"c", "c", "1", "2", "x">>)>>,
      <<"category", <<>> >>,
      <<"category", Str(<<"z", "z">>)>>,
      <<"projectType", Undefined>>,
      <<"projectType", Str(<<"d", "u", "o">>)>>,
      <<"projectName", Rep("p", 61)>>,
      <<"projectDesc", Rep("d", 9)>>,
      <<"projectDesc", Rep("d", 401)>>,
      <<"otherMembers", Str(<<"A", "l", "i">>)>> }

RECURSIVE Changed(_, _, _)
\* the forms that differ from f in at most n fields
Changed(f, changes, n) ==
    IF n = 0 THEN {f}
    ELSE LET less == Changed(f, changes, n - 1)
         IN  less \cup {[g EXCEPT ![c[1]] = c[2]] : g \in less, c \in changes}

Forms ==
    {[page |-> "contact", f |-> g] :
        g \in Changed(ValidContactForm, ContactChanges, MaxChanged)}
    \cup
    {[page |-> "project", f |-> g] :
        g \in Changed(ValidProjectForm, ProjectChanges, MaxChanged)}

\* the body the page sends, or would send, for the form
Payload(fm) ==
    IF fm.page = "contact" THEN ContactPayload(fm.f) ELSE ProjectPayload(fm.f)

\* the submit listener of the contact form runs its checks
SubmitContactForm(lenient) ==
    /\ form.page = "contact"
    /\ ~verdict.client.done
    /\ LET errors == ContactFormErrors(form.f, lenient)
       IN  verdict' = [verdict EXCEPT !.client =
                          [done |-> TRUE,
                           outcome |-> Outcome("contact", form.f, errors),
                           errors |-> errors]]
    /\ UNCHANGED <<reqs, contact_messages, projects, nextId, stored0, form, ui>>

\* the submit listener of the project form runs its checks
SubmitProjectForm ==
    /\ form.page = "project"
    /\ ~verdict.client.done
    /\ LET errors == ProjectFormErrors(form.f)
       IN  verdict' = [verdict EXCEPT !.client =
                          [done |-> TRUE,
                           outcome |-> Outcome("project", form.f, errors),
                           errors |-> errors]]
    /\ UNCHANGED <<reqs, contact_messages, projects, nextId, stored0, form, ui>>

\* the chains of the endpoint run on the body of the form
ValidateOnServer ==
    /\ form.page \in {"contact", "project"}
    /\ ~verdict.server.done
    /\ LET errors == ValidationErrors(form.page, Payload(form))
       IN  verdict' = [verdict EXCEPT !.server =
                          [done |-> TRUE,
                           outcome |-> IF errors = <<>> THEN "accepted"
                                       ELSE "rejected",
                           errors |-> errors]]
    /\ UNCHANGED <<reqs, contact_messages, projects, nextId, stored0, form, ui>>

InitV ==
    /\ reqs = <<>>
    /\ contact_messages = <<>>
    /\ projects = <<>>
    /\ nextId = 1
    /\ stored0 = 0
    /\ form \in Forms
    /\ verdict = NoVerdict
    /\ ui = IdlePage

NextV ==
    \/ \E lenient \in BOOLEAN : SubmitContactForm(lenient)
    \/ SubmitProjectForm
    \/ ValidateOnServer

SpecV == InitV /\ [][NextV]_vars

-----------------------------------------------------------------------------
(* A submit of the page: its checks, its request, the server's answer and *)
(* what the page shows of it                                              *)

\* result.msg || "...": the text the page falls back on
DefaultText(page, status) ==
    CASE page = "contact" /\ status = "error" ->
             "There was a problem sending your message."
      [] page = "contact" /\ status = "ok" ->
             "Your message has been sent successfully."
      [] page = "project" /\ status = "error" ->
             "There was a problem saving your project."
      [] page = "project" /\ status = "ok" ->
             "Team project idea has been saved successfully."

\* the text of the catch around fetch
CatchText(page) ==
    IF page = "contact" THEN "Server error while sending your message."
    ELSE "Server error while saving your project."

\* result.msg || fallback, for the parsed body of the response
MsgOr(result, fallback) ==
    IF "msg" \in result.keys /\ result.msg # "" THEN result.msg ELSE fallback

\* the message box after the response was parsed
Rendered(page, result) ==
    IF result.status = "error"
    THEN [phase |-> "done", box |-> "error-box",
          text |-> <<MsgOr(result, DefaultText(page, "error"))>>,
          reset |-> FALSE]
    ELSE [phase |-> "done", box |-> "success-msg",
          text |-> <<MsgOr(result, DefaultText(page, "ok"))>>,
          reset |-> TRUE]

\* the submit listener: it runs the checks, and then shows the error list or
\* sends the form, which the server validates on arrival
Submit(lenient) ==
    /\ ui.phase = "idle"
    /\ LET errors  == IF form.page = "contact"
                      THEN ContactFormErrors(form.f, lenient)
                      ELSE ProjectFormErrors(form.f)
           outcome == Outcome(form.page, form.f, errors)
       IN  /\ verdict' = [verdict EXCEPT !.client =
                             [done |-> TRUE, outcome |-> outcome,
                              errors |-> errors]]
           /\ CASE outcome = "threw" ->
                     /\ ui' = [ui EXCEPT !.phase = "threw"]
                     /\ UNCHANGED reqs
                [] outcome = "shown" ->
                     /\ ui' = [phase |-> "shown", box |-> "error-box",
                               text |-> errors, reset |-> FALSE]
                     /\ UNCHANGED reqs
                [] outcome = "sent" ->
                     /\ ui' = [ui EXCEPT !.phase = "waiting"]
                     /\ reqs' = Append(reqs, Post(form.page, Payload(form)))
    /\ UNCHANGED <<contact_messages, projects, nextId, stored0, form>>

\* the response arrives and the listener renders it
Receive ==
    /\ ui.phase = "waiting"
    /\ reqs[1].pc = "responded"
    /\ ui' = Rendered(form.page, reqs[1].resp)
    /\ UNCHANGED <<reqs, contact_messages, projects, nextId, stored0, form,
                   verdict>>

\* fetch rejects: the request or its response is lost on the network
FetchFails ==
    /\ ui.phase = "waiting"
    /\ ui' = [phase |-> "failed", box |-> "error-box",
              text |-> <<CatchText(form.page)>>, reset |-> FALSE]
    /\ UNCHANGED <<reqs, contact_messages, projects, nextId, stored0, form,
                   verdict>>

InitC ==
    /\ reqs = <<>>
    /\ contact_messages = <<>>
    /\ projects = <<>>
    /\ nextId = 1
    /\ stored0 = 0
    /\ form \in Forms
    /\ verdict = NoVerdict
    /\ ui = IdlePage

NextC ==
    \/ \E lenient \in BOOLEAN : Submit(lenient)
    \/ \E i \in 1..Len(reqs) : StoreInsert(i)
    \/ \E i \in 1..Len(reqs), burn \in BOOLEAN : StoreReject(i, burn)
    \/ \E i \in 1..Len(reqs) : Respond(i)
    \/ Receive
    \/ FetchFails

SpecC == InitC /\ [][NextC]_vars

-----------------------------------------------------------------------------
(* Notions the properties share *)

Requests == 1..Len(reqs)

Posts == {i \in Requests : reqs[i].kind \in {"contact", "project"}}

FieldsOf(kind) == IF kind = "contact" THEN ContactFields ELSE ProjectFields

RuleHolds(kind, body, f) ==
    IF kind = "contact" THEN ContactRule(body, f) ELSE ProjectRule(body, f)

\* the fields whose rule the body fails, in the order the rules are declared
Failing(kind, body) ==
    SelectSeq(FieldsOf(kind), LAMBDA f : ~RuleHolds(kind, body, f))

Passes(i) == Failing(reqs[i].kind, reqs[i].body) = <<>>

Answered(i) == reqs[i].pc = "responded"

AnsweredOk(i) == Answered(i) /\ reqs[i].resp.status = "ok"

\* request i arrives in this step
Arrives(i) == i = Len(reqs) + 1 /\ Len(reqs') = i

\* the store accepts the insert of request i in this step
Accepted(i) ==
    i \in Posts /\ reqs[i].pc = "awaiting" /\ reqs'[i].pc = "resolved"

\* the statement of request i fails in this step
Refused(i) ==
    i \in Requests /\ reqs[i].pc = "awaiting" /\ reqs'[i].pc = "rejected"

\* request i is answered in this step
Answers(i) ==
    i \in Requests /\ reqs[i].pc # "responded" /\ reqs'[i].pc = "responded"

Tables == <<contact_messages, projects>>

-----------------------------------------------------------------------------
(* C1 *)

\* C1: a request to POST /api/contact or POST /api/project whose body fails
\* at least one rule is answered 400 with {status: "error", errors}, errors
\* holding one entry for every failing rule, in the order the rules are
\* declared; no insert is issued for it and, when it arrives, both tables
\* stay as they are.
C1_AllErrorsNoInsert ==
    [][\A i \in 1..MaxReq :
          (Arrives(i) /\ reqs'[i].kind # "list" /\
             Failing(reqs'[i].kind, reqs'[i].body) # <<>>)
          => /\ reqs'[i].pc = "responded"
             /\ reqs'[i].resp.code = 400
             /\ reqs'[i].resp.keys = {"status", "errors"}
             /\ reqs'[i].resp.status = "error"
             /\ [k \in 1..Len(reqs'[i].resp.errors) |->
                    reqs'[i].resp.errors[k].param]
                = Failing(reqs'[i].kind, reqs'[i].body)
             /\ reqs'[i].params = <<>>
             /\ Tables' = Tables]_vars

\* a request that failed three rules has been answered with three errors
C1_Witness ==
    \E i \in Posts :
        /\ Len(Failing(reqs[i].kind, reqs[i].body)) = 3
        /\ reqs[i].resp.code = 400
        /\ Len(reqs[i].resp.errors) = 3

-----------------------------------------------------------------------------
(* C2 *)

ColumnOf(f) ==
    CASE f = "firstName"    -> "first_name"
      [] f = "lastName"     -> "last_name"
      [] f = "teamName"     -> "team_name"
      [] f = "teamSize"     -> "team_size"
      [] f = "repName"      -> "rep_name"
      [] f = "repId"        -> "rep_id"
      [] f = "repEmail"     -> "rep_email"
      [] f = "otherMembers" -> "other_members"
      [] f = "courseCode"   -> "course_code"
      [] f = "projectType"  -> "project_type"
      [] f = "projectName"  -> "project_name"
      [] f = "projectDesc"  -> "description"
      [] OTHER              -> f

Optional == {"otherMembers", "tools"}

\* the row of request i holds, for every field, value(f)
RowHolds(row, i, value(_)) ==
    \A f \in DOMAIN reqs[i].body :
        row[ColumnOf(f)] =
            IF f \in Optional /\ reqs[i].body[f] = Undefined THEN <<>>
            ELSE value(f)

\* the step in which the store accepts the insert of request i adds exactly
\* one row, to the table of the endpoint, holding value(f) for every field f
OneRowAdded(i, value(_)) ==
    IF reqs[i].kind = "contact"
    THEN /\ Len(contact_messages') = Len(contact_messages) + 1
         /\ SubSeq(contact_messages', 1, Len(contact_messages))
              = contact_messages
         /\ RowHolds(contact_messages'[Len(contact_messages')], i, value)
         /\ projects' = projects
    ELSE /\ Len(projects') = Len(projects) + 1
         /\ SubSeq(projects', 1, Len(projects)) = projects
         /\ RowHolds(projects'[Len(projects')], i, value)
         /\ contact_messages' = contact_messages

OkAfterInsert(i) ==
    (Answers(i) /\ reqs[i].pc = "resolved" /\ i \in Posts)
    => /\ reqs'[i].resp.code = 200
       /\ reqs'[i].resp.status = "ok"
       /\ reqs'[i].resp.keys = {"status", "msg"}

\* C2 as the claim states it: the row carries the submitted field values
C2_SubmittedValuesStored ==
    [][\A i \in 1..MaxReq :
          /\ Accepted(i) =>
                OneRowAdded(i, LAMBDA f : reqs[i].body[f])
          /\ OkAfterInsert(i)]_vars

\* C2: when the body passes validation and the store accepts the write,
\* exactly one row is added to the table of the endpoint; it carries the
\* submitted values, those of the fields whose chain calls trim() made a
\* string and trimmed, and otherMembers and tools as the empty string when
\* absent; the answer is {status: "ok", msg} with status 200.
C2_ValidatedValuesStored ==
    [][\A i \in 1..MaxReq :
          /\ Accepted(i) =>
                OneRowAdded(i, LAMBDA f :
                    IF f \in ContactTrimmed \cup ProjectTrimmed
                    THEN Trim(ToStr(reqs[i].body[f]))
                    ELSE reqs[i].body[f])
          /\ OkAfterInsert(i)]_vars

\* a project submitted without otherMembers, its team name padded, is stored
\* and answered ok
C2_Witness ==
    \E i, j \in Posts :
        /\ AnsweredOk(i) /\ AnsweredOk(j)
        /\ reqs[i].kind = "project" /\ reqs[j].kind = "project"
        /\ reqs[i].body.teamName # Trim(reqs[i].body.teamName)
        /\ reqs[j].body.otherMembers = Undefined
        /\ Len(projects) = stored0 + 2


-----------------------------------------------------------------------------
(* C3 *)

\* C3: when the statement of a request fails (the insert of a POST, the
\* select of GET /api/projects) no row is added and the answer is 500 with
\* {status: "error", msg}, without an errors list; a validation failure is
\* always 400 with an errors list and without msg.
C3_StoreFailureIs500 ==
    [][\A i \in 1..MaxReq :
          /\ Refused(i) => Tables' = Tables
          /\ (Answers(i) /\ reqs[i].pc = "rejected")
             => /\ reqs'[i].resp.code = 500
                /\ reqs'[i].resp.status = "error"
                /\ reqs'[i].resp.keys = {"status", "msg"}
                /\ reqs'[i].resp.msg # ""
                /\ Tables' = Tables
          /\ (Arrives(i) /\ reqs'[i].kind # "list" /\
                Failing(reqs'[i].kind, reqs'[i].body) # <<>>)
             => /\ reqs'[i].resp.code = 400
                /\ reqs'[i].resp.keys = {"status", "errors"}
                /\ reqs'[i].resp.errors # <<>>]_vars

\* a failed insert has been answered 500 next to a validation failure
C3_Witness ==
    \E i, j \in Posts :
        /\ Passes(i) /\ reqs[i].resp.code = 500
        /\ ~Passes(j) /\ reqs[j].resp.code = 400

-----------------------------------------------------------------------------
(* C4 *)

\* the requests to the endpoint kind that were answered ok
OkCount(kind) == Cardinality({i \in Posts : reqs[i].kind = kind /\ AnsweredOk(i)})

\* the requests to the endpoint kind whose insert is done and not yet answered
Resolved(kind) ==
    Cardinality({i \in Posts : reqs[i].kind = kind /\ reqs[i].pc = "resolved"})

\* C4: under any interleaving of requests, a submission either adds one row
\* and is answered ok or adds none and is answered with an error: each table
\* holds one row per request answered ok or about to be (so, when no request
\* is in flight, as many rows as ok answers were sent), and the answer to a
\* request is decided by its own body and its own statement alone.
C4_AllOrNothing ==
    /\ Len(contact_messages) = OkCount("contact") + Resolved("contact")
    /\ Len(projects) = stored0 + OkCount("project") + Resolved("project")
    /\ (\A i \in Requests : Answered(i))
       => /\ Len(contact_messages) = OkCount("contact")
          /\ Len(projects) = stored0 + OkCount("project")
    /\ \A i \in Posts :
          Answered(i) =>
             /\ reqs[i].resp.status \in {"ok", "error"}
             /\ reqs[i].resp.code = 400 <=> ~Passes(i)
             /\ reqs[i].resp.code \in {200, 400, 500}
             /\ reqs[i].resp.status = "ok" <=> reqs[i].resp.code = 200

\* two submissions of the same body, one stored and one refused by the
\* store, and nothing in flight
C4_Witness ==
    /\ \A i \in Requests : Answered(i)
    /\ \E i, j \in Posts :
          /\ reqs[i].body = reqs[j].body
          /\ reqs[i].kind = "project"
          /\ AnsweredOk(i)
          /\ reqs[j].resp.code = 500
          /\ Len(projects) = stored0 + 1

-----------------------------------------------------------------------------
(* C5 *)

IdsDescend(rows) ==
    \A k \in 1..(Len(rows) - 1) : rows[k].id > rows[k + 1].id

Builds == {"server.js", "part_001"}

\* C5 as the claim states it: every project body that satisfies the rules is
\* answered ok
C5_ValidProjectSucceeds ==
    \A i \in Posts :
        (reqs[i].kind = "project" /\ Passes(i) /\ Answered(i))
        => reqs[i].resp.status = "ok"

\* C5: for a project body that satisfies every rule and whose insert the
\* store accepts, the answer is ok, and the listing of either build returns
\* after the insert exactly the records it returned before, preceded by the
\* new one; a listing is in strictly descending identifier order.
C5_NewestFirst ==
    [][/\ \A i \in 1..MaxReq :
             /\ (Accepted(i) /\ reqs[i].kind = "project")
                => \A b \in Builds :
                      /\ Len(SelectProjects(projects', b)) =
                            Len(SelectProjects(projects, b)) + 1
                      /\ Tail(SelectProjects(projects', b)) =
                            SelectProjects(projects, b)
                      /\ Head(SelectProjects(projects', b)).team_name =
                            Trim(reqs[i].body.teamName)
                      /\ \A k \in 1..Len(projects) :
                            Head(SelectProjects(projects', b)).id
                               > projects[k].id
             /\ (i \in Posts /\ reqs[i].kind = "project") => OkAfterInsert(i)
       /\ \A b \in Builds : IdsDescend(SelectProjects(projects', b))
       /\ \A i \in 1..Len(reqs') :
             reqs'[i].kind = "list" => IdsDescend(reqs'[i].resp.data)]_vars

\* a listing answered after a project was stored returns it before the row
\* the table already held
C5_Witness ==
    \E i, j \in Requests :
        /\ reqs[i].kind = "project" /\ AnsweredOk(i)
        /\ reqs[j].kind = "list" /\ AnsweredOk(j)
        /\ Len(reqs[j].resp.data) = 2
        /\ reqs[j].resp.data[1].id = 2
        /\ reqs[j].resp.data[1].team_name = Trim(reqs[i].body.teamName)
        /\ reqs[j].resp.data[2].id = 1


-----------------------------------------------------------------------------
(* The option sets of the single-choice fields *)

\* the radio buttons of the contact page
GenderOptions ==
    {Str(<<"m", "a", "l", "e">>), Str(<<"f", "e", "m", "a", "l", "e">>)}

\* the select of the contact page
LanguageOptions == {Str(<<"e", "n">>), Str(<<"a", "r">>)}

\* the codes formatMajor knows
CategoryOptions ==
    {Str(<<"c", "y", "b", "e", "r", "s", "e", "c", "u", "r", "i", "t", "y">>),
     Str(<<"c", "s">>), Str(<<"s", "e">>), Str(<<"i", "s">>),
     Str(<<"a", "i">>), Str(<<"d", "a", "t", "a">>)}

\* "Select group or solo."
ProjectTypeOptions ==
    {Str(<<"g", "r", "o", "u", "p">>), Str(<<"s", "o", "l", "o">>)}

-----------------------------------------------------------------------------
(* C6 *)

\* the date a YYYY-MM-DD string writes
DateOf(s) == <<YearOf(Expand(s)), MonthOf(Expand(s)), DayOf(Expand(s))>>

\* a date of birth that is present, a calendar date and not after today
DobOk(v) ==
    LET s == Trim(ToStr(v))
    IN  s # <<>> /\ IsValidDateYMD(s) /\ ~Before(Today, DateOf(s))

\* exactly "+9665" and 8 digits, or exactly "05" and 8 digits
ExactMobile(s) ==
    LET cs == IF StrLen(s) <= 13 THEN Expand(s) ELSE <<>>
    IN  \/ /\ Len(cs) = 13
           /\ SubSeq(cs, 1, 5) = <<"+", "9", "6", "6", "5">>
           /\ \A k \in 6..13 : cs[k] \in Digits
        \/ /\ Len(cs) = 10
           /\ SubSeq(cs, 1, 2) = <<"0", "5">>
           /\ \A k \in 3..10 : cs[k] \in Digits

\* the rule of field f as the rule set states it
StatedContactRule(b, f) ==
    LET s == Trim(ToStr(b[f]))
    IN  CASE f \in {"firstName", "lastName"} ->
                 RunsIn(s, Letters) /\ StrLen(s) >= 2 /\ StrLen(s) <= 30
          [] f = "gender"   -> b[f] \in GenderOptions
          [] f = "mobile"   -> ExactMobile(s)
          [] f = "dob"      -> DobOk(b[f])
          [] f = "email"    -> IsEmail(s)
          [] f = "language" -> b[f] \in LanguageOptions
          [] f = "message"  -> StrLen(s) >= 10 /\ StrLen(s) <= 1000

\* C6: a contact body that violates exactly one rule of the rule set and
\* satisfies the others gets from POST /api/contact an errors list of length
\* 1 whose entry names the violating field.
C6_OneViolationOneError ==
    (form.page = "contact" /\ verdict.server.done)
    => LET b   == Payload(form)
           bad == {f \in Range(ContactFields) : ~StatedContactRule(b, f)}
       IN  Cardinality(bad) = 1
           => /\ Len(verdict.server.errors) = 1
              /\ verdict.server.errors[1].param \in bad

-----------------------------------------------------------------------------
(* C7 *)

\* C7: the page lets a form through exactly when the chains of its endpoint
\* accept the body the page sends for it.
C7_ClientServerAgree ==
    (verdict.client.done /\ verdict.server.done)
    => (verdict.client.outcome = "sent"
          <=> verdict.server.outcome = "accepted")

-----------------------------------------------------------------------------
(* C8 *)

\* C8: a contact submission whose date of birth is missing, is no calendar
\* date or is after the current date is rejected by the page and by the
\* server, and no row of contact_messages holds such a date of birth.
C8_NoBadDobStored ==
    /\ \A k \in 1..Len(contact_messages) : DobOk(contact_messages[k].dob)
    /\ \A i \in Posts :
          (reqs[i].kind = "contact" /\ AnsweredOk(i))
          => DobOk(reqs[i].body.dob)
    /\ (form.page = "contact" /\ ~DobOk(form.f.dob))
       => /\ verdict.client.done => verdict.client.outcome # "sent"
          /\ verdict.server.done => verdict.server.outcome = "rejected"

-----------------------------------------------------------------------------
(* C9 *)

\* C9: the server accepts a submission only if gender, language, category
\* and projectType each hold a member of their option set; a body where one
\* is absent or outside its set is rejected and never stored.
C9_OnlyOptionsStored ==
    /\ \A k \in 1..Len(contact_messages) :
          /\ contact_messages[k].gender \in GenderOptions
          /\ contact_messages[k].language \in LanguageOptions
    /\ \A k \in 1..Len(projects) :
          /\ projects[k].category \in CategoryOptions
          /\ projects[k].project_type \in ProjectTypeOptions
    /\ \A i \in Posts :
          AnsweredOk(i)
          => IF reqs[i].kind = "contact"
             THEN /\ reqs[i].body.gender \in GenderOptions
                  /\ reqs[i].body.language \in LanguageOptions
             ELSE /\ reqs[i].body.category \in CategoryOptions
                  /\ reqs[i].body.projectType \in ProjectTypeOptions

-----------------------------------------------------------------------------
(* C10 *)

MobileError(errors) == \E k \in 1..Len(errors) : errors[k].param = "mobile"

MobileMessage(errors) ==
    \E k \in 1..Len(errors) :
        errors[k] =
          "Mobile must be a valid Saudi number (+9665XXXXXXXX or 05XXXXXXXX)."

\* C10: the phone rule accepts a trimmed mobile exactly when it is "+9665"
\* and 8 digits or "05" and 8 digits, on the server and on the page.
C10_MobileExact ==
    form.page = "contact"
    => /\ verdict.server.done
          => (~MobileError(verdict.server.errors)
                <=> ExactMobile(Trim(form.f.mobile)))
       /\ verdict.client.done
          => (~MobileMessage(verdict.client.errors)
                <=> ExactMobile(Trim(form.f.mobile)))

-----------------------------------------------------------------------------
(* C11 *)

\* the contact form is the valid one but for its mobile, which is m
OnlyMobile(m) ==
    /\ form.page = "contact"
    /\ form.f = [ValidContactForm EXCEPT !.mobile = m]

\* both validations let the form through
MobileAccepted ==
    /\ verdict.server.done => verdict.server.outcome = "accepted"
    /\ verdict.client.done => verdict.client.outcome = "sent"

\* both validations refuse the form, for its mobile
MobileRejected ==
    /\ verdict.server.done
       => /\ verdict.server.outcome = "rejected"
          /\ MobileError(verdict.server.errors)
    /\ verdict.client.done
       => /\ verdict.client.outcome = "shown"
          /\ MobileMessage(verdict.client.errors)

\* C11 as stated: with every other field valid, 05012345678 and
\* +966501234567 are accepted, 0501234567 and 9665012345678 are rejected
\* with a mobile error.
C11_BoundaryAsStated ==
    /\ OnlyMobile(Mobile05And9) => MobileAccepted
    /\ OnlyMobile(MobilePlus9665And8) => MobileAccepted
    /\ OnlyMobile(Mobile05And8) => MobileRejected
    /\ OnlyMobile(Mobile9665And9) => MobileRejected

\* C11, amended: with every other field valid, 0501234567 (05 and 8
\* digits) and +966501234567 are accepted, 05012345678 (05 and 9 digits)
\* and 9665012345678 are rejected with a mobile error, by the server and
\* by the page.
C11_Boundary ==
    /\ OnlyMobile(Mobile05And8) => MobileAccepted
    /\ OnlyMobile(MobilePlus9665And8) => MobileAccepted
    /\ OnlyMobile(Mobile05And9) => MobileRejected
    /\ OnlyMobile(Mobile9665And9) => MobileRejected

C11_Witness ==
    /\ OnlyMobile(Mobile05And9)
    /\ verdict.server.done
    /\ verdict.client.done
    /\ verdict.server.outcome = "rejected"
    /\ MobileError(verdict.server.errors)

-----------------------------------------------------------------------------
(* C12 *)

Lists == {i \in Requests : reqs[i].kind = "list"}

\* request i is a listing and takes a step: it arrives, its select is
\* executed or fails, or it is answered
ListingSteps(i) ==
    \/ Arrives(i) /\ reqs'[i].kind = "list"
    \/ i \in Lists /\ reqs'[i] # reqs[i]

\* the select of listing i is executed in this step
Selects(i) ==
    i \in Lists /\ reqs[i].pc = "awaiting" /\ reqs'[i].pc = "resolved"

\* the listings that have their result set
Selected == {i \in Lists : reqs[i].pc = "resolved" \/ AnsweredOk(i)}

\* the result set listing i got
ResultOf(i) ==
    IF reqs[i].pc = "resolved" THEN reqs[i].rows ELSE reqs[i].resp.data

\* C12: a listing leaves both tables unchanged at each of its steps; its
\* select returns every stored project, newest first, and the answer is
\* {status: "ok", data: rows} with exactly those rows, [] when no project is
\* stored; two listings with no insert between their selects (the table
\* only grows, so: that found as many rows) got identical sequences.
C12_ListingReadOnlyIdempotent ==
    [][\A i \in 1..MaxReq :
          /\ ListingSteps(i) => Tables' = Tables /\ nextId' = nextId
          /\ Selects(i)
             => /\ Len(reqs'[i].rows) = Len(projects)
                /\ \A k \in 1..Len(projects) :
                      reqs'[i].rows[k] =
                         Project(projects[Len(projects) + 1 - k], "server.js")
                /\ \A j \in Selected :
                      Len(ResultOf(j)) = Len(projects)
                      => ResultOf(j) = reqs'[i].rows
          /\ (Answers(i) /\ i \in Lists /\ reqs[i].pc = "resolved")
             => /\ reqs'[i].resp.code = 200
                /\ reqs'[i].resp.keys = {"status", "data"}
                /\ reqs'[i].resp.status = "ok"
                /\ reqs'[i].resp.data = reqs[i].rows]_vars

\* two listings answered with the one project the table holds
C12_Witness ==
    /\ Len(projects) = 1
    /\ \E i, j \in Lists :
          /\ i # j
          /\ AnsweredOk(i) /\ AnsweredOk(j)
          /\ reqs[i].resp.data = reqs[j].resp.data
          /\ Len(reqs[i].resp.data) = 1

-----------------------------------------------------------------------------
(* C13 *)

\* table u holds every row of table t, unchanged and in its place
Keeps(t, u) ==
    /\ Len(u) >= Len(t)
    /\ \A k \in 1..Len(t) : u[k] = t[k]

\* C13: every step of the system, of a contact submission, a project
\* submission or a listing, accepted or failed, leaves every stored row of
\* contact_messages and of projects in place with the values it had.
C13_RowsImmutable ==
    [][/\ Keeps(contact_messages, contact_messages')
       /\ Keeps(projects, projects')]_vars

\* the project the table held at the start is still there, unchanged, after
\* a project was stored behind it and a listing was answered
C13_Witness ==
    /\ stored0 = 1
    /\ Len(projects) = 2
    /\ projects[1] = StoredProject(1)
    /\ \E i \in Lists : AnsweredOk(i)
    /\ \E i \in Posts : AnsweredOk(i)

-----------------------------------------------------------------------------
(* C14 *)

\* the messages of the error list of a 400 answer
ReturnedErrors(result) ==
    [k \in 1..Len(result.errors) |-> result.errors[k].msg]

\* C14: once the page has rendered the answer to its request, the form is
\* reset and the success message shown exactly when the answer is ok; after
\* a 400 or a 500 the form is not reset and the box shows what the server
\* returned: the messages of the errors list, or msg.
C14_ShowsServerAnswer ==
    ui.phase = "done"
    => LET result == reqs[1].resp
       IN  /\ (ui.reset /\ ui.box = "success-msg") <=> result.status = "ok"
           /\ result.status = "ok" => ui.text = <<result.msg>>
           /\ result.code = 400
              => /\ ~ui.reset
                 /\ ui.box = "error-box"
                 /\ ui.text = ReturnedErrors(result)
           /\ result.code = 500
              => /\ ~ui.reset
                 /\ ui.box = "error-box"
                 /\ ui.text = <<result.msg>>

-----------------------------------------------------------------------------
(* C15 *)

\* C15: after a submit whose checks found at least one error, no request
\* was issued and the box shows all the messages the checks collect; a
\* request was issued only when the checks found none.
C15_ChecksBeforeRequest ==
    verdict.client.done
    => /\ verdict.client.errors # <<>>
          => /\ reqs = <<>>
             /\ ui.phase = "shown"
             /\ ui.box = "error-box"
             /\ ui.text = verdict.client.errors
       /\ reqs # <<>> => verdict.client.errors = <<>>

-----------------------------------------------------------------------------
(* C16 *)

\* request i has its answer
HasAnswer(i) == i \in Requests /\ Answered(i)

\* C16: with a store that settles every statement, each request of any of
\* the three endpoints, whatever the other requests in flight, is
\* eventually answered; its answer is a 400, a 500 or a success, and once
\* sent it is never sent again or changed.
C16_AnsweredOnce ==
    /\ \A i \in 1..MaxReq : (i \in Requests) ~> HasAnswer(i)
    /\ [][\A i \in 1..MaxReq :
             /\ HasAnswer(i) => reqs'[i] = reqs[i]
             /\ (Answers(i) \/ (Arrives(i) /\ reqs'[i].pc = "responded"))
                => reqs'[i].resp.code \in {200, 400, 500}]_vars

\* two requests were in flight together, the store failed one and served the
\* other, and both have their answer
C16_Witness ==
    /\ Len(reqs) = MaxReq
    /\ \A i \in Requests : Answered(i)
    /\ \E i, j \in Requests :
          /\ reqs[i].resp.code = 500
          /\ reqs[j].resp.code = 200
    /\ \E i \in Requests : reqs[i].kind = "list"

=============================================================================
